---- MODULE Spec2Model ----
(***************************************************************************)
(* Model of TS-app.py: main() conditions an uploaded (date, value) table,  *)
(* fixes the seasonal period and calls suggest_forecasting_methods, which  *)
(* runs the ADF test, the seasonal decomposition and the rule table.       *)
(*                                                                         *)
(* Timestamps are whole hours counted from a Sunday 00:00; NaT and NaN are *)
(* the markers pandas uses for an unparseable date and a missing value.    *)
(* Values are integers, all multiples of Scale, so that time-weighted      *)
(* linear interpolation is exact.  Strings are sequences of characters.    *)
(* The in-place interpolation of line 122 is taken to reach df.            *)
(* adfuller and seasonal_decompose are library calls.  adfuller raises on   *)
(* a constant series and on fewer than MinAdfObs observations; its p-value *)
(* is not computed, the model lets it fall on either side of 0.05.  The    *)
(* additive decomposition is computed (centred moving average, period      *)
(* means), in exact arithmetic on values scaled by 2*period.               *)
(***************************************************************************)
EXTENDS Integers, Sequences, FiniteSets

\* ---- bounds of the model ----
MaxLen == 2
MaxTime == 3
MaxPeriod == 3

\* ---- markers and calendar ----
NaT == -1
NaN == -1
HoursPerDay == 24
DaysPerWeek == 7
DefaultPeriod == 12
MinInferDates == 3
MinAdfObs == 4

RECURSIVE Gcd(_, _)
Gcd(a, b) == IF b = 0 THEN a ELSE Gcd(b, a % b)

RECURSIVE LcmUpTo(_)
LcmUpTo(n) == IF n <= 1 THEN 1 ELSE (LcmUpTo(n - 1) * n) \div Gcd(LcmUpTo(n - 1), n)

Scale == LcmUpTo(MaxTime)

\* ---- the uploaded table ----
\* A file holds rows at one resolution: every 12 hours, every 2 days,
\* weekly on Sundays, weekly on Mondays.
Resolutions ==
    { [unit |-> 12, off |-> 0],
      [unit |-> 2 * HoursPerDay, off |-> 0],
      [unit |-> HoursPerDay * DaysPerWeek, off |-> 0],
      [unit |-> HoursPerDay * DaysPerWeek, off |-> HoursPerDay] }

Stamps(r) == { r.off + k * r.unit : k \in 0..MaxTime }

RawRows(r) == [ts : Stamps(r) \cup {NaT}, val : {NaN, 0, Scale}]

SeqsUpTo(S, n) == UNION { [1..k -> S] : k \in 0..n }

\* rows of any kind in any order: unparseable dates, repeated and
\* descending timestamps, missing values
ShortTables(r) == SeqsUpTo(RawRows(r), MaxLen)

\* the rows at the grid positions in present, ascending from position k;
\* cells[k] is the value, or NaN, of the row at position k
RECURSIVE TableFrom(_, _, _, _)
TableFrom(r, present, cells, k) ==
    IF k > MaxTime THEN <<>>
    ELSE (IF k \in present
          THEN <<[ts |-> r.off + k * r.unit, val |-> cells[k]]>>
          ELSE <<>>)
         \o TableFrom(r, present, cells, k + 1)

\* longer tables, ascending and without repeated timestamps; rows and
\* values may be missing
OrderedTables(r) ==
    { TableFrom(r, present, cells, 0) :
          present \in SUBSET (0..MaxTime), cells \in [0..MaxTime -> {NaN, 0, Scale}] }

Uploads == UNION { ShortTables(r) \cup OrderedTables(r) : r \in Resolutions }

\* ---- strings ----
Digits == <<"0", "1", "2", "3", "4", "5", "6", "7", "8", "9">>

IsDigit(c) == \E i \in 1..10 : Digits[i] = c

DigitVal(c) == (CHOOSE i \in 1..10 : Digits[i] = c) - 1

RECURSIVE IntToStr(_)
IntToStr(n) == IF n < 10 THEN <<Digits[n + 1]>>
               ELSE IntToStr(n \div 10) \o <<Digits[(n % 10) + 1]>>

RECURSIVE StrToNat(_)
StrToNat(s) == IF Len(s) = 0 THEN 0
               ELSE StrToNat(SubSeq(s, 1, Len(s) - 1)) * 10 + DigitVal(s[Len(s)])

Contains(s, c) == \E i \in 1..Len(s) : s[i] = c

AllDigits(s) == Len(s) > 0 /\ \A i \in 1..Len(s) : IsDigit(s[i])

\* length of the leading run of digits
RECURSIVE DigitPrefix(_)
DigitPrefix(s) == IF Len(s) = 0 \/ ~IsDigit(s[1]) THEN 0
                  ELSE 1 + DigitPrefix(Tail(s))

\* str.strip(c): drop every leading and trailing c
RECURSIVE Strip(_, _)
Strip(s, c) == IF Len(s) > 0 /\ s[1] = c THEN Strip(Tail(s), c)
               ELSE IF Len(s) > 0 /\ s[Len(s)] = c THEN Strip(SubSeq(s, 1, Len(s) - 1), c)
               ELSE s

\* results of calls that may raise ValueError
Ok(v) == [ok |-> TRUE, val |-> v]
ValueError == [ok |-> FALSE, val |-> 0]

\* ---- conditioning (main, lines 118-126) ----
\* pd.to_datetime(errors='coerce') turns an unparseable date into NaT;
\* dropna(subset=[date_col]) removes those rows.
DropNaT(rows) == SelectSeq(rows, LAMBDA r : r.ts # NaT)

IsMonotonic(rows) == \A i \in 1..(Len(rows) - 1) : rows[i].ts <= rows[i + 1].ts

\* sort_index(): an index already in order is left alone; otherwise the
\* rows come back ascending, rows of equal timestamp in any order (the
\* default sort is not stable).
SortIndex(rows) ==
    IF IsMonotonic(rows) THEN {rows}
    ELSE LET n == Len(rows)
             perms == { p \in [1..n -> 1..n] : \A i, j \in 1..n : i # j => p[i] # p[j] }
         IN  { [i \in 1..n |-> rows[p[i]]] : p \in
                 { q \in perms : \A i \in 1..(n - 1) : rows[q[i]].ts <= rows[q[i + 1]].ts } }

ValidRows(rows) == SelectSeq(rows, LAMBDA r : r.val # NaN)

\* np.interp(x, xp, fp) on the non-missing rows
InterpAt(x, pts) ==
    LET below == { k \in 1..Len(pts) : pts[k].ts <= x }
    IN  IF below = {} THEN pts[1].val
        ELSE LET j == CHOOSE k \in below : \A m \in below : m <= k
             IN  IF j = Len(pts) THEN pts[j].val
                 ELSE IF pts[j].ts = x THEN pts[j].val
                 ELSE pts[j].val
                      + ((pts[j + 1].val - pts[j].val) * (x - pts[j].ts))
                          \div (pts[j + 1].ts - pts[j].ts)

\* Series.interpolate(method='time'): missing values after the first
\* non-missing one are filled, weighted by elapsed time; trailing ones take
\* the last value; leading ones stay missing.
Interpolate(rows) ==
    LET pts == ValidRows(rows)
        firstValid == CHOOSE i \in 1..Len(rows) :
                          rows[i].val # NaN /\ \A k \in 1..(i - 1) : rows[k].val = NaN
    IN  IF Len(pts) = 0 THEN rows
        ELSE [i \in 1..Len(rows) |->
                 IF rows[i].val = NaN /\ i > firstValid
                 THEN [ts |-> rows[i].ts, val |-> InterpAt(rows[i].ts, pts)]
                 ELSE rows[i]]

\* df[value_col].isnull().all()
AllNull(rows) == \A i \in 1..Len(rows) : rows[i].val = NaN

\* ---- frequency (main, lines 128-140) ----
\* The frequency strings a user types, one of them not a frequency.
FreqInputs == { <<"1", "2", "H">>, <<"D">>, <<"2", "D">>, <<"7", "D">>,
                <<"W">>, <<"X">> }

UnitHours(c) == IF c = "H" THEN 1
                ELSE IF c = "D" THEN HoursPerDay
                ELSE HoursPerDay * DaysPerWeek

\* to_offset(freq): [count]unit; "W" is the week anchored on Sunday.
ToOffset(s) ==
    LET d == DigitPrefix(s)
        n == IF d = 0 THEN 1 ELSE StrToNat(SubSeq(s, 1, d))
    IN  IF Len(s) = d + 1 /\ s[d + 1] \in {"H", "D", "W"} /\ n > 0
        THEN Ok([step |-> n * UnitHours(s[d + 1]), anchored |-> s[d + 1] = "W"])
        ELSE ValueError

Weekday(t) == (t \div HoursPerDay) % DaysPerWeek

\* date_range that stops one step short of end
DateRange_ExcludesEnd(start, end, off) ==
    LET first == IF off.anchored
                 THEN start + ((DaysPerWeek - Weekday(start)) % DaysPerWeek) * HoursPerDay
                 ELSE start
        n == IF first > end THEN 0 ELSE (end - first) \div off.step
    IN  [k \in 1..n |-> first + (k - 1) * off.step]

\* date_range(start, end, freq): a tick frequency starts at start; the
\* Sunday-anchored week rolls start forward to a Sunday, time of day kept.
DateRange(start, end, off) ==
    LET first == IF off.anchored
                 THEN start + ((DaysPerWeek - Weekday(start)) % DaysPerWeek) * HoursPerDay
                 ELSE start
        n == IF first > end THEN 0 ELSE (end - first) \div off.step + 1
    IN  [k \in 1..n |-> first + (k - 1) * off.step]

IsUnique(rows) == \A i, j \in 1..Len(rows) : i # j => rows[i].ts # rows[j].ts

\* reindex(dti): a grid position present in the index keeps its value, the
\* others are inserted as missing.
Reindex(rows, grid) ==
    [k \in 1..Len(grid) |->
        IF \E i \in 1..Len(rows) : rows[i].ts = grid[k]
        THEN rows[CHOOSE i \in 1..Len(rows) : rows[i].ts = grid[k]]
        ELSE [ts |-> grid[k], val |-> NaN]]

\* df.asfreq(freq): ValueError for a string that is no frequency and for an
\* index with duplicate labels.
AsFreq(rows, s) ==
    LET off == ToOffset(s)
    IN  IF ~off.ok \/ ~IsUnique(rows) THEN ValueError
        ELSE Ok(Reindex(rows, DateRange(rows[1].ts, rows[Len(rows)].ts, off.val)))

WeekdayNames == << <<"S", "U", "N">>, <<"M", "O", "N">>, <<"T", "U", "E">>,
                   <<"W", "E", "D">>, <<"T", "H", "U">>, <<"F", "R", "I">>,
                   <<"S", "A", "T">> >>

\* _maybe_add_count(base, count)
MaybeAddCount(base, count) == IF count = 1 THEN base ELSE IntToStr(count) \o base

None == <<>>

\* pd.infer_freq(index): ValueError below three dates; None when the
\* spacing is not uniform; otherwise weeks, days or hours.
InferFreq(rows) ==
    IF Len(rows) < MinInferDates THEN ValueError
    ELSE LET delta == rows[2].ts - rows[1].ts
             week == HoursPerDay * DaysPerWeek
         IN  IF \E i \in 1..(Len(rows) - 1) : rows[i + 1].ts - rows[i].ts # delta
             THEN Ok(None)
             ELSE IF delta % week = 0
             THEN Ok(MaybeAddCount(<<"W", "-">> \o WeekdayNames[Weekday(rows[1].ts) + 1],
                                   delta \div week))
             ELSE IF delta % HoursPerDay = 0
             THEN Ok(MaybeAddCount(<<"D">>, delta \div HoursPerDay))
             ELSE Ok(MaybeAddCount(<<"H">>, delta))

\* pd.Timedelta(freq).days: a number followed by the unit D
TimedeltaDays(s) ==
    LET d == DigitPrefix(s)
    IN  IF d > 0 /\ Len(s) = d + 1 /\ s[d + 1] = "D"
        THEN Ok(StrToNat(SubSeq(s, 1, d)))
        ELSE ValueError

\* int(text)
ParseInt(s) == IF AllDigits(s) THEN Ok(StrToNat(s)) ELSE ValueError

\* line 137: the period read off the inferred frequency string
PeriodFromFreq(s) ==
    IF Contains(s, "D") THEN TimedeltaDays(s)
    ELSE IF Contains(s, "W")
    THEN LET n == ParseInt(Strip(s, "W"))
         IN  IF n.ok THEN Ok(n.val * DaysPerWeek) ELSE ValueError
    ELSE Ok(1)

\* st.number_input(min_value=1, value=12)
PeriodEntries == (1..MaxPeriod) \cup {DefaultPeriod}

\* ---- suggest_forecasting_methods ----
DropNa(rows) == ValidRows(rows)

\* adfuller(x)[1] in hundredths; the call raises on a series that is too
\* short for the regression or constant.
Alpha == 5
PValues == {Alpha - 1, Alpha}
Raises == [ok |-> FALSE, val |-> 0]
IsConstant(x) == \A i, j \in 1..Len(x) : x[i].val = x[j].val
AdfOutcomes(x) ==
    IF Len(x) < MinAdfObs \/ IsConstant(x) THEN {Raises} ELSE { Ok(p) : p \in PValues }

\* line 26
IsStationary(p_value) == p_value < Alpha

\* the length check with <= in place of <
TooShort_OffByOne(n, period) == n <= 2 * period

\* line 36
TooShort(n, period) == n < 2 * period

\* seasonal_decompose(x, model='additive', period=p), values times 2*p.
\* Weight of the moving-average window at distance k from its centre.
Weight(p, k) == IF p % 2 = 0 /\ (k = p \div 2 \/ k = -(p \div 2)) THEN 1 ELSE 2

RECURSIVE WindowSum(_, _, _, _)
WindowSum(x, p, i, k) ==
    IF k > p \div 2 THEN 0
    ELSE Weight(p, k) * x[i + k].val + WindowSum(x, p, i, k + 1)

\* positions at which the centred window fits
TrendDefined(x, p) == (p \div 2 + 1)..(Len(x) - p \div 2)

TrendAt(x, p, i) == WindowSum(x, p, i, -(p \div 2))

DetrendedAt(x, p, i) == 2 * p * x[i].val - TrendAt(x, p, i)

\* the positions of cycle slot j that have a detrended value
Slot(x, p, j) == { i \in TrendDefined(x, p) : (i - 1) % p = j }

RECURSIVE SumOver(_, _, _)
SumOver(x, p, S) ==
    IF S = {} THEN 0
    ELSE LET i == CHOOSE m \in S : TRUE
         IN  DetrendedAt(x, p, i) + SumOver(x, p, S \ {i})

\* Series.std() > 0 of the trend: at least two values, not all equal
TrendOf(x, p) ==
    IF \E i, j \in TrendDefined(x, p) : TrendAt(x, p, i) # TrendAt(x, p, j)
    THEN "varying" ELSE "flat"

\* Series.std() > 0 of the seasonal component: every slot has a mean
\* (np.nanmean) and two slot means differ
SeasonalOf(x, p) ==
    IF /\ \A j \in 0..(p - 1) : Slot(x, p, j) # {}
       /\ \E j, k \in 0..(p - 1) :
              SumOver(x, p, Slot(x, p, j)) * Cardinality(Slot(x, p, k))
                  # SumOver(x, p, Slot(x, p, k)) * Cardinality(Slot(x, p, j))
    THEN "varying" ELSE "flat"

Components == {"flat", "varying"}

\* the presence test without its "is not None" guard
HasStd_NoneCounts(component) == component = "None" \/ component = "varying"

\* lines 58-59
HasStd(component) == component # "None" /\ component = "varying"

\* the note emitted for a stationary series instead
DifferencingNote_Inverted(stationary) ==
    IF stationary = "True"
    THEN <<"- Consider differencing or transforming the data to achieve stationarity.">>
    ELSE <<>>

\* lines 72-73
DifferencingNote(stationary) ==
    IF stationary = "False"
    THEN <<"- Consider differencing or transforming the data to achieve stationarity.">>
    ELSE <<>>

DES == "- Recommended methods: Double Exponential Smoothing, ARIMA with trend."
HW == "- Recommended methods: Holt-Winters Exponential Smoothing, SARIMA."
SD == "- Recommended methods: Seasonal Decomposition, SARIMA."
SES == "- Recommended methods: Simple Exponential Smoothing, ARIMA."

\* the rule table without its final else
RecommendedMethods_NoElse(has_trend, has_seasonality) ==
    IF has_trend = "True" /\ has_seasonality # "True" THEN <<DES>>
    ELSE IF has_trend = "True" /\ has_seasonality = "True" THEN <<HW>>
    ELSE IF has_trend # "True" /\ has_seasonality = "True" THEN <<SD>>
    ELSE <<>>

\* the rule table with the two seasonal rows exchanged
RecommendedMethods_Swapped(has_trend, has_seasonality) ==
    IF has_trend = "True" /\ has_seasonality # "True" THEN <<DES>>
    ELSE IF has_trend = "True" /\ has_seasonality = "True" THEN <<SD>>
    ELSE IF has_trend # "True" /\ has_seasonality = "True" THEN <<HW>>
    ELSE <<SES>>

\* lines 75-82
RecommendedMethods(has_trend, has_seasonality) ==
    IF has_trend = "True" /\ has_seasonality # "True" THEN <<DES>>
    ELSE IF has_trend = "True" /\ has_seasonality = "True" THEN <<HW>>
    ELSE IF has_trend # "True" /\ has_seasonality = "True" THEN <<SD>>
    ELSE <<SES>>

Bool(b) == IF b THEN "True" ELSE "False"

ErrAllNaN == "The value column contains only NaN values after interpolation."
ErrEmpty == "The time series is empty after processing."
ErrFreq == "Error in setting frequency"
WarnNoFreq == "Frequency could not be inferred."
Inferred == "Inferred frequency"
AdfStats == "ADF Statistic, p-value"
ErrAdf == "ADF test was not successful"
ErrDecomp == "Seasonal decomposition was not successful"
DecompPlot == "Decomposition of Time Series"
HdrRecs == "Recommendations:"
Closing == "- For complex patterns, consider machine learning models like LSTM networks."

\* ---- state ----
VARIABLES uploaded, df, pc, freq_input, freq, out, p_value, stationary, trend,
          seasonal, has_trend, has_seasonality

vars == <<uploaded, df, pc, freq_input, freq, out, p_value, stationary, trend,
          seasonal, has_trend, has_seasonality>>

locals == <<p_value, stationary, trend, seasonal, has_trend, has_seasonality>>

Init ==
    /\ uploaded \in Uploads
    /\ df = uploaded
    /\ pc = "conditioning"
    /\ freq_input = None
    /\ freq = 0
    /\ out = <<>>
    /\ p_value = "unset"
    /\ stationary = "unset"
    /\ trend = "unset"
    /\ seasonal = "unset"
    /\ has_trend = "unset"
    /\ has_seasonality = "unset"

\* main, lines 118-126
Conditioning ==
    /\ pc = "conditioning"
    /\ \E sorted \in SortIndex(DropNaT(df)) :
          LET filled == Interpolate(sorted)
          IN  /\ df' = filled
              /\ IF AllNull(filled)
                 THEN out' = Append(out, ErrAllNaN) /\ pc' = "done"
                 ELSE out' = out /\ pc' = "frequency"
    /\ UNCHANGED <<uploaded, freq_input, freq, locals>>

\* main, lines 128-140
SetFrequency ==
    /\ pc = "frequency"
    /\ \E typed \in FreqInputs, entry \in PeriodEntries :
          LET resampled == AsFreq(df, typed)
          IN  /\ freq_input' = typed
              /\ IF ~resampled.ok
                 THEN df' = df /\ out' = Append(out, ErrFreq) /\ freq' = entry
                 ELSE LET inferred == InferFreq(resampled.val)
                      IN  /\ df' = resampled.val
                          /\ IF ~inferred.ok
                             THEN out' = Append(out, ErrFreq) /\ freq' = entry
                             ELSE IF inferred.val = None
                             THEN out' = Append(out, WarnNoFreq) /\ freq' = entry
                             ELSE LET period == PeriodFromFreq(inferred.val)
                                  IN  IF period.ok
                                      THEN out' = Append(out, Inferred) /\ freq' = period.val
                                      ELSE out' = out \o <<Inferred, ErrFreq>> /\ freq' = entry
    /\ pc' = "adf"
    /\ UNCHANGED <<uploaded, locals>>

\* suggest_forecasting_methods, lines 9-33
AdfTest ==
    /\ pc = "adf"
    /\ IF Len(df) = 0
       THEN out' = Append(out, ErrEmpty) /\ pc' = "done" /\ UNCHANGED <<p_value, stationary>>
       ELSE \E outcome \in AdfOutcomes(DropNa(df)) :
               IF ~outcome.ok
               THEN out' = Append(out, ErrAdf) /\ pc' = "done"
                    /\ UNCHANGED <<p_value, stationary>>
               ELSE /\ p_value' = outcome.val
                    /\ stationary' = Bool(IsStationary(outcome.val))
                    /\ out' = out \o <<AdfStats,
                                       IF IsStationary(outcome.val)
                                       THEN "The data is stationary."
                                       ELSE "The data is non-stationary.">>
                    /\ pc' = "decompose"
    /\ UNCHANGED <<uploaded, df, freq_input, freq, trend, seasonal, has_trend, has_seasonality>>

\* suggest_forecasting_methods, lines 35-69
Decompose ==
    /\ pc = "decompose"
    /\ LET x == DropNa(df)
           failed == TooShort(Len(x), freq)
           t == IF failed THEN "None" ELSE TrendOf(x, freq)
           s == IF failed THEN "None" ELSE SeasonalOf(x, freq)
       IN  /\ trend' = t
           /\ seasonal' = s
           /\ has_trend' = Bool(HasStd(t))
           /\ has_seasonality' = Bool(HasStd(s))
           /\ out' = out \o <<IF failed THEN ErrDecomp ELSE DecompPlot,
                               IF HasStd(t) THEN "Trend detected in the data."
                                            ELSE "No significant trend detected.",
                               IF HasStd(s) THEN "Seasonality detected in the data."
                                            ELSE "No significant seasonality detected.">>
    /\ pc' = "recommend"
    /\ UNCHANGED <<uploaded, df, freq_input, freq, p_value, stationary>>

\* suggest_forecasting_methods, lines 71-84
Recommend ==
    /\ pc = "recommend"
    /\ out' = out \o <<HdrRecs>> \o DifferencingNote(stationary)
                  \o RecommendedMethods(has_trend, has_seasonality) \o <<Closing>>
    /\ pc' = "done"
    /\ UNCHANGED <<uploaded, df, freq_input, freq, locals>>

Next == Conditioning \/ SetFrequency \/ AdfTest \/ Decompose \/ Recommend

Spec == Init /\ [][Next]_vars

\* ---- properties ----
Note == "- Consider differencing or transforming the data to achieve stationarity."
MethodEntries == {DES, HW, SD, SES}

Has(seq, x) == \E i \in 1..Len(seq) : seq[i] = x
Positions(seq, S) == { i \in 1..Len(seq) : seq[i] \in S }
Before(seq, x, S) == \A i \in Positions(seq, {x}), j \in Positions(seq, S) : i < j

Recommended == pc = "done" /\ Has(out, HdrRecs)
Handed == pc \in {"adf", "decompose", "recommend", "done"} /\ freq_input # None
Decomposed == pc \in {"recommend", "done"} /\ trend # "unset"

\* C1: whatever the three flags are, a finished recommendation step has
\* written exactly one "Recommended methods" entry and has run to its
\* closing line, with no error entry after the header.
C1_RecommendationTotal ==
    Recommended =>
        /\ stationary \in {"True", "False"}
        /\ has_trend \in {"True", "False"}
        /\ has_seasonality \in {"True", "False"}
        /\ Cardinality(Positions(out, MethodEntries)) = 1
        /\ out[Len(out)] = Closing
        /\ Before(out, HdrRecs, MethodEntries)

C1_Witness ==
    /\ Recommended
    /\ stationary = "False" /\ has_trend = "False" /\ has_seasonality = "False"
    /\ Has(out, SES)

\* C2: the entry listed is the one the decision table gives for
\* (has_trend, has_seasonality), whatever the stationary flag is.
C2_DecisionTable ==
    Recommended =>
        \A m \in MethodEntries :
            Has(out, m) <=>
                m = (CASE has_trend = "True" /\ has_seasonality = "False" -> DES
                       [] has_trend = "True" /\ has_seasonality = "True" -> HW
                       [] has_trend = "False" /\ has_seasonality = "True" -> SD
                       [] has_trend = "False" /\ has_seasonality = "False" -> SES)

C2_Witness ==
    /\ Recommended
    /\ stationary = "True" /\ has_trend = "False" /\ has_seasonality = "True"
    /\ Has(out, SD)

\* C3: the differencing note is written exactly when the verdict is
\* non-stationary, and then it stands before the methods entry.
C3_DifferencingNote ==
    Recommended =>
        /\ Has(out, Note) <=> stationary = "False"
        /\ Has(out, Note) <=> Has(out, "The data is non-stationary.")
        /\ stationary = "False" <=> ~(p_value < Alpha)
        /\ Before(out, Note, MethodEntries)
        /\ Before(out, HdrRecs, {Note})

C3_Witness ==
    /\ Recommended
    /\ stationary = "False" /\ has_trend = "True" /\ has_seasonality = "True"
    /\ Has(out, Note)

\* C4: once the decomposition stage has run, fewer than 2*p non-missing
\* samples means it reported its error and left no component; 2*p or more
\* means the length check did not fail.
C4_LengthCheck ==
    Decomposed =>
        IF Len(DropNa(df)) < 2 * freq
        THEN Has(out, ErrDecomp) /\ ~Has(out, DecompPlot)
             /\ trend = "None" /\ seasonal = "None"
        ELSE ~Has(out, ErrDecomp) /\ Has(out, DecompPlot)
             /\ trend \in Components /\ seasonal \in Components

C4_Witness ==
    /\ Decomposed
    /\ freq <= Len(DropNa(df)) /\ Len(DropNa(df)) < 2 * freq
    /\ Has(out, ErrDecomp)
    /\ trend = "None"

\* C5: the series handed to the diagnostics has strictly increasing
\* timestamps.
C5_StrictlyIncreasing ==
    Handed => \A i \in 1..(Len(df) - 1) : df[i].ts < df[i + 1].ts

\* C6: the series handed to the diagnostics has no missing value between
\* its first and its last non-missing value.
C6_NoInteriorMissing ==
    Handed =>
        \A i, j, k \in 1..Len(df) :
            (i < j /\ j < k /\ df[i].val # NaN /\ df[k].val # NaN) => df[j].val # NaN

\* C7: an upload without one parseable timestamp ends in the empty-input
\* report, not in the all-missing one, and no later stage runs.
C7_EmptyInputDistinct ==
    (pc = "done" /\ Len(DropNaT(uploaded)) = 0) =>
        /\ Has(out, ErrEmpty)
        /\ ~Has(out, ErrAllNaN)
        /\ ~Has(out, AdfStats) /\ ~Has(out, ErrAdf) /\ ~Has(out, HdrRecs)

\* an upload that is sorted, duplicate-free, complete and on the grid of
\* the frequency s
RegularComplete(rows, s) ==
    /\ ToOffset(s).ok
    /\ Len(rows) > 0
    /\ \A i \in 1..Len(rows) : rows[i].ts # NaT /\ rows[i].val # NaN
    /\ \A i \in 1..(Len(rows) - 1) : rows[i + 1].ts - rows[i].ts = ToOffset(s).val.step
    /\ ToOffset(s).val.anchored => (rows[1].ts \div HoursPerDay) % DaysPerWeek = 0

C10_PeriodAtLeastTwo ==
    Has(out, DecompPlot) => freq >= 2

====
